---------------------------- MODULE Spec2Model ----------------------------
(***************************************************************************)
(* Model of the CODEOWNERS subsystem of pr-status-monitor                  *)
(* (src/src/codeowners.js), of the collaborators it calls in               *)
(* src/src/github-service.js, of the monitoring pass run() that uses      *)
(* them, and of the lazily initialized state of the service.               *)
(*                                                                         *)
(* A JavaScript string is modelled as a sequence of one-character strings, *)
(* so that slicing, searching, replacing and regular-expression matching   *)
(* are computed character by character, as the code computes them.         *)
(* A call yields a record: threw says whether it raised (the SyntaxError of *)
(* the RegExp constructor), value is what it returned otherwise.           *)
(***************************************************************************)
EXTENDS Naturals, Sequences, FiniteSets, TLC

VARIABLES
    pc,          \* "idle" before a call, the name of the function after it
    filename,    \* matchPattern / matchFileToOwners: the path argument
    pattern,     \* matchPattern: the pattern argument
    content,     \* parseCodeowners: the CODEOWNERS text
    codeowners,  \* matchFileToOwners / getPRCodeowners: the rule list
    changed,     \* getPRCodeowners: the files the pull request changes, and
                 \* whether the request listing them succeeds
    files,       \* getPRCodeowners: what getPullRequestFiles returned
    result,      \* the outcome of the call: [threw, value]
    runPc,       \* run: the position of the pass
    inputs,      \* run: the inputs of the action (core.getInput)
    loaded,      \* run: codeowners, what loadCodeowners returned (or null)
    pullRequests,\* run: what listPullRequests returned
    loopIndex,   \* run / commentOnPRs: the position of the running for-of loop
    issues,      \* run: the lists stalled, unassigned, blocked, old, needsReview
    outputs,     \* run: what core.setOutput was given
    comments,    \* the comments each pull request carries on the repository
    calls,       \* the requests made to the outside (API, webhooks), in order
    failed,      \* run: what core.setFailed was given
    _octokit,    \* github-service: the API client, or null
    _owner,      \* github-service: the owner of the repository, or null
    _repo,       \* github-service: the name of the repository, or null
    serviceLog   \* the operations called on the service directly, in order

callVars == <<pc, filename, pattern, content, codeowners, changed, files, result>>
runVars == <<runPc, inputs, loaded, pullRequests, loopIndex, issues, outputs,
             comments, calls, failed>>
serviceVars == <<_octokit, _owner, _repo, serviceLog>>
vars == <<callVars, runVars, serviceVars>>

(***************************************************************************)
(* String primitives: the methods of String.prototype the code uses       *)
(***************************************************************************)

\* s.slice(from) for 0-based from, as a 1-based suffix
DropFirst(s, n) == SubSeq(s, n + 1, Len(s))

\* s.slice(0, -n)
DropLast(s, n) == SubSeq(s, 1, Len(s) - n)

\* s.startsWith(p)
StartsWith(s, p) == Len(s) >= Len(p) /\ SubSeq(s, 1, Len(p)) = p

\* s.endsWith(p)
EndsWith(s, p) == Len(s) >= Len(p) /\ SubSeq(s, Len(s) - Len(p) + 1, Len(s)) = p

\* s.includes(c) for a one-character c
Includes(s, c) == \E i \in 1..Len(s) : s[i] = c

\* s.replace(/from/g, to) for a literal from: leftmost, non-overlapping
RECURSIVE ReplaceAll(_, _, _)
ReplaceAll(s, from, to) ==
    IF Len(s) < Len(from) THEN s
    ELSE IF SubSeq(s, 1, Len(from)) = from
         THEN to \o ReplaceAll(DropFirst(s, Len(from)), from, to)
         ELSE <<s[1]>> \o ReplaceAll(Tail(s), from, to)

\* s.replace(c, '') for a one-character string c: the first occurrence only
RECURSIVE RemoveFirst(_, _)
RemoveFirst(s, c) ==
    IF s = <<>> THEN <<>>
    ELSE IF s[1] = c THEN Tail(s)
         ELSE <<s[1]>> \o RemoveFirst(Tail(s), c)

(***************************************************************************)
(* Regular expressions: the fragment of the JavaScript syntax that the     *)
(* glob translation can produce (literals, escapes, ., character classes,  *)
(* groups, and the two quantifiers star and question mark).                *)
(***************************************************************************)

\* the outcome of a call that returned v
Returned(v) == [threw |-> FALSE, value |-> v]

\* the outcome of a call that raised (v: the placeholder for its value)
Thrown(v) == [threw |-> TRUE, value |-> v]

\* index of the first "]" of the class that starts at re[1] = "[", 0 if none
RECURSIVE ClassEnd(_, _)
ClassEnd(re, i) ==
    IF i > Len(re) THEN 0
    ELSE IF re[i] = "]" THEN i ELSE ClassEnd(re, i + 1)

\* index of the ")" that closes the group opened at re[1] = "(", 0 if none
RECURSIVE GroupEnd(_, _, _)
GroupEnd(re, i, depth) ==
    IF i > Len(re) THEN 0
    ELSE IF re[i] = "\\" THEN GroupEnd(re, i + 2, depth)
    ELSE IF re[i] = "[" THEN
        (IF ClassEnd(DropFirst(re, i - 1), 2) = 0 THEN 0
         ELSE GroupEnd(re, i + ClassEnd(DropFirst(re, i - 1), 2), depth))
    ELSE IF re[i] = "(" THEN GroupEnd(re, i + 1, depth + 1)
    ELSE IF re[i] = ")" THEN
        (IF depth = 1 THEN i ELSE GroupEnd(re, i + 1, depth - 1))
    ELSE GroupEnd(re, i + 1, depth)

\* length of the atom at the head of a non-empty re, 0 when it is malformed
AtomLen(re) ==
    IF re[1] = "\\" THEN (IF Len(re) >= 2 THEN 2 ELSE 0)
    ELSE IF re[1] = "[" THEN ClassEnd(re, 2)
    ELSE IF re[1] = "(" THEN GroupEnd(re, 2, 1)
    ELSE IF re[1] \in {")", "*", "?"} THEN 0
    ELSE 1

Quantifiers == {"*", "?"}

\* new RegExp(re) succeeds: every atom is well formed (groups and classes
\* are closed, no quantifier without an atom)
RECURSIVE WellFormed(_)
WellFormed(re) ==
    IF re = <<>> THEN TRUE
    ELSE LET n == AtomLen(re) IN
         /\ n > 0
         /\ (re[1] = "(" => WellFormed(SubSeq(re, 2, n - 1)))
         /\ LET q == IF n < Len(re) /\ re[n + 1] \in Quantifiers THEN 1 ELSE 0
            IN WellFormed(DropFirst(re, n + q))

RECURSIVE Matches(_, _)
RECURSIVE AtomMatches(_, _)
RECURSIVE StarMatches(_, _)

\* the atom (a whole atom of a well-formed expression) matches exactly t
AtomMatches(atom, t) ==
    IF atom[1] = "(" THEN Matches(SubSeq(atom, 2, Len(atom) - 1), t)
    ELSE /\ Len(t) = 1
         /\ IF atom[1] = "\\" THEN t[1] = atom[2]
            ELSE IF atom[1] = "." THEN t[1] \notin {"\n", "\r"}
            ELSE IF atom[1] = "[" THEN
                (IF Len(atom) >= 3 /\ atom[2] = "^"
                 THEN ~Includes(SubSeq(atom, 3, Len(atom) - 1), t[1])
                 ELSE Includes(SubSeq(atom, 2, Len(atom) - 1), t[1]))
            ELSE t[1] = atom[1]

\* atom* matches exactly t
StarMatches(atom, t) ==
    \/ t = <<>>
    \/ \E j \in 1..Len(t) :
          /\ AtomMatches(atom, SubSeq(t, 1, j))
          /\ StarMatches(atom, DropFirst(t, j))

\* the well-formed expression re matches the whole of s (^re$)
Matches(re, s) ==
    IF re = <<>> THEN s = <<>>
    ELSE LET n    == AtomLen(re)
             atom == SubSeq(re, 1, n)
             q    == IF n < Len(re) /\ re[n + 1] \in Quantifiers
                     THEN re[n + 1] ELSE ""
             rest == DropFirst(re, IF q = "" THEN n ELSE n + 1)
         IN  \/ q = "?" /\ Matches(rest, s)
             \/ \E k \in 0..Len(s) :
                   /\ IF q = "*" THEN StarMatches(atom, SubSeq(s, 1, k))
                      ELSE AtomMatches(atom, SubSeq(s, 1, k))
                   /\ Matches(rest, DropFirst(s, k))

\* new RegExp(`^${re}$`).test(s): the constructor throws a SyntaxError when
\* the expression is malformed
RegExpTest(re, s) ==
    IF ~WellFormed(re) THEN Thrown(FALSE) ELSE Returned(Matches(re, s))

(***************************************************************************)
(* matchPattern (codeowners.js)                                            *)
(***************************************************************************)

\* filename.startsWith('/') ? filename.slice(1) : filename
NormalizeFile(name) ==
    IF StartsWith(name, <<"/">>) THEN DropFirst(name, 1) ELSE name

\* a pattern whose leading slash is kept (a plausible slip of the line below)
NormalizePatternKeepSlash(pat) == pat

\* pattern.startsWith('/') ? pattern.slice(1) : pattern
NormalizePattern(pat) ==
    IF StartsWith(pat, <<"/">>) THEN DropFirst(pat, 1) ELSE pat

\* the chain without its first call (the dots left unescaped)
regexPatternNoEscape(pat) ==
    LET starSlash == ReplaceAll(pat, <<"*", "*", "/">>,
                                <<"(", ".", "*", "\\", "/", ")", "?">>)
        slashStar == ReplaceAll(starSlash, <<"/", "*", "*">>,
                                <<"(", "\\", "/", ".", "*", ")", "?">>)
        starStar  == ReplaceAll(slashStar, <<"*", "*">>, <<".", "*">>)
    IN  ReplaceAll(starStar, <<"*">>, <<"[", "^", "/", "]", "*">>)

\* the chain of replace calls that turns a glob into a regular expression;
\* each call works on the text the previous call produced
regexPattern(pat) ==
    LET escaped   == ReplaceAll(pat, <<".">>, <<"\\", ".">>)
        starSlash == ReplaceAll(escaped, <<"*", "*", "/">>,
                                <<"(", ".", "*", "\\", "/", ")", "?">>)
        slashStar == ReplaceAll(starSlash, <<"/", "*", "*">>,
                                <<"(", "\\", "/", ".", "*", ")", "?">>)
        starStar  == ReplaceAll(slashStar, <<"*", "*">>, <<".", "*">>)
    IN  ReplaceAll(starStar, <<"*">>, <<"[", "^", "/", "]", "*">>)

\* pattern === '*'
isMatchAllNever(patt) == FALSE

isMatchAll(patt) == patt = <<"*">>

\* the directory match without the separator (a plausible slip of dir + '/')
matchDirectoryNoSeparator(file, pat) ==
    LET dir == DropLast(pat, 1) IN StartsWith(file, dir) \/ file = dir

\* const dir = pat.slice(0, -1); file.startsWith(dir + '/') || file === dir
matchDirectory(file, pat) ==
    LET dir == DropLast(pat, 1) IN StartsWith(file, dir \o <<"/">>) \/ file = dir

\* the extension match left to the glob translation
matchExtensionGlob(file, pat) == RegExpTest(regexPattern(pat), file).value

\* const ext = pat.slice(1); file.endsWith(ext)
matchExtension(file, pat) == LET ext == DropFirst(pat, 1) IN EndsWith(file, ext)

\* the prefix match without its first disjunct
matchPrefixExact(file, pat) == file = pat

\* the prefix match without the separator (a plausible slip of pat + '/')
matchPrefixNoSeparator(file, pat) == StartsWith(file, pat) \/ file = pat

\* file.startsWith(pat + '/') || file === pat
matchPrefix(file, pat) == StartsWith(file, pat \o <<"/">>) \/ file = pat

\* matchPattern(filename, pattern)
matchPattern(name, patt) ==
    IF isMatchAll(patt) THEN Returned(TRUE)
    ELSE LET file == NormalizeFile(name)
             pat  == NormalizePattern(patt)
         IN  IF file = pat THEN Returned(TRUE)
             ELSE IF EndsWith(pat, <<"/">>)
                  THEN Returned(matchDirectory(file, pat))
             ELSE IF StartsWith(pat, <<"*", ".">>)
                  THEN Returned(matchExtension(file, pat))
             ELSE IF Includes(pat, "*")
                  THEN RegExpTest(regexPattern(pat), file)
             ELSE IF ~Includes(pat, ".") /\ ~Includes(pat, "*")
                  THEN Returned(matchPrefix(file, pat))
             ELSE Returned(FALSE)

(***************************************************************************)
(* parseCodeowners (codeowners.js)                                         *)
(***************************************************************************)

\* the characters of the model that String.prototype.trim and \s treat as
\* white space inside a line
Whitespace == {" ", "\t", "\r"}

\* content.split('\n')
RECURSIVE SplitLines(_)
SplitLines(s) ==
    IF ~Includes(s, "\n") THEN <<s>>
    ELSE LET i == CHOOSE k \in 1..Len(s) :
                    s[k] = "\n" /\ \A j \in 1..(k - 1) : s[j] /= "\n"
         IN  <<SubSeq(s, 1, i - 1)>> \o SplitLines(DropFirst(s, i))

\* line.trim()
RECURSIVE Trim(_)
Trim(s) ==
    IF s = <<>> THEN s
    ELSE IF s[1] \in Whitespace THEN Trim(Tail(s))
    ELSE IF s[Len(s)] \in Whitespace THEN Trim(DropLast(s, 1))
    ELSE s

\* the number of white-space characters at the head of s
RECURSIVE WsRun(_)
WsRun(s) ==
    IF s = <<>> \/ s[1] \notin Whitespace THEN 0 ELSE 1 + WsRun(Tail(s))

\* s.split(/\s+/)
RECURSIVE SplitWs(_)
SplitWs(s) ==
    IF \A k \in 1..Len(s) : s[k] \notin Whitespace THEN <<s>>
    ELSE LET i == CHOOSE k \in 1..Len(s) :
                    s[k] \in Whitespace /\ \A j \in 1..(k - 1) : s[j] \notin Whitespace
             after == DropFirst(s, i - 1)
         IN  <<SubSeq(s, 1, i - 1)>> \o SplitWs(DropFirst(after, WsRun(after)))

\* owner => owner.replace('@', '')
stripAt(owner) == RemoveFirst(owner, "@")

\* a filter that keeps team references (a plausible slip of the line below)
isIndividualAlways(owner) == TRUE

\* owner => !owner.includes('/')
isIndividual(owner) == ~Includes(owner, "/")

\* parts.slice(1).map(...).filter(...)
RECURSIVE ownersOf(_)
ownersOf(tokens) ==
    IF tokens = <<>> THEN <<>>
    ELSE LET owner == stripAt(tokens[1])
         IN  (IF isIndividual(owner) THEN <<owner>> ELSE <<>>) \o ownersOf(Tail(tokens))

\* a line kept whatever owners are left (a plausible slip of the line below)
hasOwnersAlways(owners) == TRUE

\* if (owners.length > 0)
hasOwners(owners) == Len(owners) > 0

\* rules.unshift instead of rules.push (a plausible slip of the line below)
pushRuleFront(rules, rule) == <<rule>> \o rules

\* rules.push({ pattern, owners })
pushRule(rules, rule) == Append(rules, rule)

\* the body of the loop over the lines: the rule list after one more line
parseLine(rules, line) ==
    LET trimmed == Trim(line) IN
    IF trimmed = <<>> \/ StartsWith(trimmed, <<"#">>) THEN rules
    ELSE LET parts == SplitWs(trimmed) IN
         IF Len(parts) < 2 THEN rules
         ELSE LET owners == ownersOf(Tail(parts)) IN
              IF hasOwners(owners)
              THEN pushRule(rules, [pattern |-> parts[1], owners |-> owners])
              ELSE rules

RECURSIVE parseLines(_, _)
parseLines(rules, lines) ==
    IF lines = <<>> THEN rules
    ELSE parseLines(parseLine(rules, lines[1]), Tail(lines))

\* parseCodeowners(content)
parseCodeowners(text) == Returned(parseLines(<<>>, SplitLines(text)))

(***************************************************************************)
(* matchFileToOwners, getPRCodeowners (codeowners.js) and                  *)
(* getPullRequestFiles (github-service.js)                                 *)
(***************************************************************************)

\* the loop of matchFileToOwners from rule i on, matched being matchedOwners;
\* a throwing matchPattern ends the call
RECURSIVE matchLoop(_, _, _, _)
matchLoop(name, rules, i, matched) ==
    IF i > Len(rules) THEN Returned(matched)
    ELSE LET m == matchPattern(name, rules[i].pattern) IN
         IF m.threw THEN Thrown(<<>>)
         ELSE matchLoop(name, rules, i + 1,
                        IF m.value THEN rules[i].owners ELSE matched)

\* the loop with the owners of every matching rule merged instead of
\* overwritten (a plausible slip of matchedOwners = rule.owners)
RECURSIVE matchLoopMerge(_, _, _, _)
matchLoopMerge(name, rules, i, matched) ==
    IF i > Len(rules) THEN Returned(matched)
    ELSE LET m == matchPattern(name, rules[i].pattern) IN
         IF m.threw THEN Thrown(<<>>)
         ELSE matchLoopMerge(name, rules, i + 1,
                             IF m.value THEN matched \o rules[i].owners ELSE matched)

matchFileToOwnersMerge(name, rules) == matchLoopMerge(name, rules, 1, <<>>)

\* matchFileToOwners(filename, codeowners)
matchFileToOwners(name, rules) == matchLoop(name, rules, 1, <<>>)

\* per_page: 100
per_page == 100

\* the answer to the one pulls.listFiles request made: the first page of the
\* files the pull request changes
firstPage(changedFiles) ==
    SubSeq(changedFiles, 1,
           IF Len(changedFiles) > per_page THEN per_page ELSE Len(changedFiles))

\* getPullRequestFiles(pullNumber): the listed file names, [] when the
\* request fails
getPullRequestFiles(changedFiles, ok) ==
    IF ok THEN firstPage(changedFiles) ELSE <<>>

\* matchedOwners.forEach(owner => allOwners.add(owner)): a Set keeps the
\* insertion order and adds no value twice
RECURSIVE addAll(_, _)
addAll(allOwners, owners) ==
    IF owners = <<>> THEN allOwners
    ELSE addAll(IF \E k \in 1..Len(allOwners) : allOwners[k] = owners[1]
                THEN allOwners ELSE Append(allOwners, owners[1]),
                Tail(owners))

\* one turn of the loop of getPRCodeowners, for the file i
ownersTurn(fileNames, rules, i, allOwners) ==
    LET matchedOwners == matchFileToOwners(fileNames[i], rules) IN
    IF matchedOwners.threw THEN Thrown(<<>>)
    ELSE Returned(IF Len(matchedOwners.value) > 0
                  THEN addAll(allOwners, matchedOwners.value)
                  ELSE allOwners)

\* the loop of getPRCodeowners over the files i to j, in their order: the
\* turns of the first half of them, then those of the second half on the set
\* the first half leaves
RECURSIVE ownersLoop(_, _, _, _, _)
ownersLoop(fileNames, rules, i, j, allOwners) ==
    IF i > j THEN Returned(allOwners)
    ELSE IF i = j THEN ownersTurn(fileNames, rules, i, allOwners)
    ELSE LET middle == (i + j) \div 2
             firstHalf == ownersLoop(fileNames, rules, i, middle, allOwners)
         IN  IF firstHalf.threw THEN firstHalf
             ELSE ownersLoop(fileNames, rules, middle + 1, j, firstHalf.value)

\* getPRCodeowners(prNumber, codeowners), fileNames being what
\* getPullRequestFiles returned for the pull request
getPRCodeowners(fileNames, rules) ==
    ownersLoop(fileNames, rules, 1, Len(fileNames), <<>>)

(***************************************************************************)
(* The monitoring pass: run (index.js), with loadCodeowners and            *)
(* assignPRToOwners (codeowners.js) and commentOnPRs (github-service.js).  *)
(* Ages are whole days: for a whole threshold n, days >= n holds exactly   *)
(* when Math.floor(days) >= n.                                             *)
(***************************************************************************)

\* let codeowners = null, and what loadCodeowners returns when it finds no
\* content
Null == [isNull |-> TRUE, rules |-> <<>>]

\* loadCodeowners(): getContent gives the data, or null when the request
\* fails; the rules are parsed when the data has a content that is not empty
loadCodeowners(found, text) ==
    IF found /\ text /= <<>>
    THEN [isNull |-> FALSE, rules |-> parseCodeowners(text).value]
    ELSE Null

\* one request to the outside: the operation, the pull request it is about
\* (0 when none), whether it succeeded, and the assignees it names
Call(op, number, ok, who) ==
    [op |-> op, pr |-> number, ok |-> ok, owners |-> who]

\* assignPullRequest(pullNumber, assignees): true, false when the request fails
assignPullRequest(ok) == ok

\* assignPRToOwners(prNumber, owners)
assignPRToOwners(ok) == assignPullRequest(ok)

\* the guard of the auto-assignment without its test of the rule list
autoAssignEnabledAlways(inp, co) == inp.autoAssignCodeowners

\* autoAssignCodeowners && codeowners
autoAssignEnabled(inp, co) == inp.autoAssignCodeowners /\ ~co.isNull

\* the guard of the assignment always true
hasPrOwnersAlways(prOwners) == TRUE

\* prOwners.length > 0
hasPrOwners(prOwners) == Len(prOwners) > 0

\* run, "Try to auto-assign to CODEOWNERS if enabled": whether getPRCodeowners
\* raised, the value of assigned, and the requests made
autoAssign(pr, inp, co, filesOk, assignOk) ==
    IF ~autoAssignEnabled(inp, co)
    THEN [threw |-> FALSE, assigned |-> FALSE, calls |-> <<>>]
    ELSE LET fileNames == getPullRequestFiles(pr.fileNames, filesOk)
             prOwners  == getPRCodeowners(fileNames, co.rules)
             listed    == Call("listFiles", pr.number, filesOk, <<>>)
         IN  IF prOwners.threw
             THEN [threw |-> TRUE, assigned |-> FALSE, calls |-> <<listed>>]
             ELSE IF hasPrOwners(prOwners.value)
             THEN [threw |-> FALSE,
                   assigned |-> assignPRToOwners(assignOk),
                   calls |-> <<listed, Call("addAssignees", pr.number, assignOk,
                                            prOwners.value)>>]
             ELSE [threw |-> FALSE, assigned |-> FALSE, calls |-> <<listed>>]

\* hasChangesRequested ? 'changes-requested' : hasApprovals ? 'approved' : 'pending'
reviewStatus(reviews) ==
    IF \E k \in 1..Len(reviews) : reviews[k] = "CHANGES_REQUESTED"
    THEN "changes-requested"
    ELSE IF \E k \in 1..Len(reviews) : reviews[k] = "APPROVED"
    THEN "approved"
    ELSE "pending"

\* the entry pushed to issues.stalled
stalledEntry(pr, reviews) ==
    [number |-> pr.number, draft |-> pr.draft, assignees |-> pr.assignees,
     daysSinceUpdate |-> pr.daysSinceUpdate,
     daysSinceCreated |-> pr.daysSinceCreated,
     reviewStatus |-> reviewStatus(reviews)]

\* the entry pushed to the other lists
issueEntry(pr) ==
    [number |-> pr.number, draft |-> pr.draft, assignees |-> pr.assignees,
     daysSinceCreated |-> pr.daysSinceCreated]

\* String.prototype.toLowerCase on the label names of the model
toLowerCase(label) == IF label = "Blocked" THEN "blocked" ELSE label

\* blockedLabels.some(label => labels.includes(label.toLowerCase()))
isBlocked(pr, inp) ==
    \E b \in 1..Len(inp.blockedLabels), l \in 1..Len(pr.labels) :
        toLowerCase(pr.labels[l]) = toLowerCase(inp.blockedLabels[b])

\* run, "Check if stalled" and "Check if old": the pushes before the
\* auto-assignment
pushStalledOld(pr, inp, iss, reviews) ==
    [iss EXCEPT
       !.stalled = IF pr.daysSinceUpdate >= inp.staleDays
                   THEN Append(@, stalledEntry(pr, reviews)) ELSE @,
       !.old = IF pr.daysSinceCreated >= inp.oldDays
               THEN Append(@, issueEntry(pr)) ELSE @]

\* the push to the unassigned list made for every pull request without assignees
pushUnassignedAlways(pr, iss, assigned) ==
    IF Len(pr.assignees) = 0 THEN [iss EXCEPT !.unassigned = Append(@, issueEntry(pr))]
    ELSE iss

\* run, "If not assigned, add to unassigned list"
pushUnassigned(pr, iss, assigned) ==
    IF Len(pr.assignees) = 0 /\ ~assigned
    THEN [iss EXCEPT !.unassigned = Append(@, issueEntry(pr))]
    ELSE iss

\* run, "Check if blocked" and "Check if needs review": the pushes after the
\* auto-assignment
pushBlockedReview(pr, inp, iss, reviews) ==
    [iss EXCEPT
       !.blocked = IF isBlocked(pr, inp) THEN Append(@, issueEntry(pr)) ELSE @,
       !.needsReview = IF ~pr.draft /\ Len(reviews) = 0 /\ pr.daysSinceCreated >= 2
                       THEN Append(@, issueEntry(pr)) ELSE @]

\* the total with the pull requests awaiting their first review counted too
totalIssuesWithReview(iss) ==
    Len(iss.stalled) + Len(iss.unassigned) + Len(iss.blocked) + Len(iss.old)
    + Len(iss.needsReview)

\* const totalIssues = stalled + unassigned + blocked + old
totalIssues(iss) ==
    Len(iss.stalled) + Len(iss.unassigned) + Len(iss.blocked) + Len(iss.old)

\* createIssueEnabled && totalIssues > 0
shouldCreateIssue(inp, iss) == inp.createIssueEnabled /\ totalIssues(iss) > 0

\* the guard of a notification with the total ignored
shouldNotifyAlways(webhook, iss) == webhook

\* slackWebhook && totalIssues > 0, teamsWebhook && totalIssues > 0
shouldNotify(webhook, iss) == webhook /\ totalIssues(iss) > 0

\* run, "Set outputs": the values given to core.setOutput
setOutputs(iss) ==
    [set |-> TRUE,
     stalled |-> Len(iss.stalled), unassigned |-> Len(iss.unassigned),
     blocked |-> Len(iss.blocked), old |-> Len(iss.old),
     needsReview |-> Len(iss.needsReview), total |-> totalIssues(iss)]

\* the message of the error given to core.setFailed as it is
setFailedNoPrefix(message) == [set |-> TRUE, message |-> message]

\* core.setFailed(`Action failed: ${error.message}`)
setFailed(message) == [set |-> TRUE, message |-> "Action failed: " \o message]

\* c.body.includes('This PR has been inactive'), for the message templates
\* of the model: "inactive" is a template with that text, "custom" one
\* without, "review" the template of run for the pull requests without review
includesInactive(template) == template = "inactive"

\* hasRecentBotComment(issueNumber, predicate, dayThreshold) on the comments
\* getIssueComments returned
hasRecentBotComment(listed, dayThreshold) ==
    \E k \in 1..Len(listed) :
        /\ listed[k].bot
        /\ listed[k].inactive
        /\ listed[k].age < dayThreshold

\* pr.daysSinceCreated || pr.daysSinceUpdate
daysOf(entry) ==
    IF entry.daysSinceCreated /= 0 THEN entry.daysSinceCreated
    ELSE entry.daysSinceUpdate

\* the body of the loop of commentOnPRs for one entry: the comments the pull
\* request carries afterwards and the requests made.  getIssueComments gives
\* [] when its request fails; a failing createComment is caught.  The
\* comment is authored by the bot user of the workflow token.
commentOnPR(entry, template, carried, listOk, postOk) ==
    LET listed == IF listOk THEN carried ELSE <<>>
        asked  == Call("listComments", entry.number, listOk, <<>>)
    IN  IF hasRecentBotComment(listed, 7)
        THEN [comments |-> carried, calls |-> <<asked>>]
        ELSE [comments |->
                 IF postOk
                 THEN Append(carried,
                             [bot |-> TRUE, inactive |-> includesInactive(template),
                              age |-> 0, days |-> daysOf(entry)])
                 ELSE carried,
              calls |-> <<asked, Call("createComment", entry.number, postOk, <<>>)>>]

(***************************************************************************)
(* The service state: _initialize and reset (github-service.js)            *)
(***************************************************************************)

\* let _octokit = null
NoClient == [isNull |-> TRUE, token |-> ""]

\* let _owner = null, let _repo = null
NoName == "null"

\* github.getOctokit(token): a new client for the token
getOctokit(token) == [isNull |-> FALSE, token |-> token]

\* github.context.repo, as the tests of the service set it
context == [owner |-> "test-owner", repo |-> "test-repo"]

\* core.getInput('github-token', { required: true }) raises when the input
\* has no value
getInputRaises(token) == token = ""

\* the guard of _initialize, with the client made on every call
needsInitializeAlways(octokit) == TRUE

\* if (_octokit) return, negated
needsInitialize(octokit) == octokit.isNull

\* _initialize(): whether it raised, whether it called getOctokit, and the
\* three variables afterwards
initialize(octokit, owner, repo, token) ==
    IF ~needsInitialize(octokit)
    THEN [threw |-> FALSE, created |-> FALSE,
          octokit |-> octokit, owner |-> owner, repo |-> repo]
    ELSE IF getInputRaises(token)
    THEN [threw |-> TRUE, created |-> FALSE,
          octokit |-> octokit, owner |-> owner, repo |-> repo]
    ELSE [threw |-> FALSE, created |-> TRUE,
          octokit |-> getOctokit(token),
          owner |-> context.owner, repo |-> context.repo]

\* the token the workflow gives a monitoring pass
WorkflowToken == "fake-token"

\* what a step of run does to the service: when it calls an operation of the
\* service, the operation calls _initialize first
UsesService(used) ==
    LET after == initialize(_octokit, _owner, _repo, WorkflowToken) IN
    /\ _octokit' = IF used THEN after.octokit ELSE _octokit
    /\ _owner' = IF used THEN after.owner ELSE _owner
    /\ _repo' = IF used THEN after.repo ELSE _repo
    /\ UNCHANGED serviceLog

(***************************************************************************)
(* The inputs of the calls.  Every string over a small alphabet up to a    *)
(* bounded length, together with longer samples in the shape of the        *)
(* repository's tests (one-letter names).                                  *)
(***************************************************************************)

MaxPatternLen == 3
MaxPathLen == 4
MaxContentLen == 5
MaxLines == 2
MaxRules == 2
MaxFiles == 2

StringsUpTo(alphabet, n) == UNION { [1..k -> alphabet] : k \in 0..n }

PatternChars == {"a", "/", ".", "*", "("}
PathChars == {"a", "/", "."}
ContentChars == {"a", "@", "/", "#", " ", "\n"}

\* patterns: **/*.t  s/**/*.t  s/**  /s/  *.t  s/c.t  s/*.t  s**t
SamplePatterns ==
    { <<"*", "*", "/", "*", ".", "t">>,
      <<"s", "/", "*", "*", "/", "*", ".", "t">>,
      <<"s", "/", "*", "*">>,
      <<"/", "s", "/">>,
      <<"*", ".", "t">>,
      <<"s", "/", "c", ".", "t">>,
      <<"s", "/", "*", ".", "t">>,
      <<"s", "*", "*", "t">> }

\* paths: f.t  a/f.t  a/b/f.t  s/f.t  s/a/f.t  s/a/b/f.t  l/f.t  s/a  s/a/b  /s/a  s/c.t  l/s/a  s/t
\*        */a  l/s/f.t  s/f.ta  s/fat  st  s/a/t
SamplePaths ==
    { <<"f", ".", "t">>,
      <<"a", "/", "f", ".", "t">>,
      <<"a", "/", "b", "/", "f", ".", "t">>,
      <<"s", "/", "f", ".", "t">>,
      <<"s", "/", "a", "/", "f", ".", "t">>,
      <<"s", "/", "a", "/", "b", "/", "f", ".", "t">>,
      <<"l", "/", "f", ".", "t">>,
      <<"s", "/", "a">>,
      <<"s", "/", "a", "/", "b">>,
      <<"/", "s", "/", "a">>,
      <<"s", "/", "c", ".", "t">>,
      <<"l", "/", "s", "/", "a">>,
      <<"s", "/", "t">>,
      <<"*", "/", "a">>,
      <<"l", "/", "s", "/", "f", ".", "t">>,
      <<"s", "/", "f", ".", "t", "a">>,
      <<"s", "/", "f", "a", "t">>,
      <<"s", "t">>,
      <<"s", "/", "a", "/", "t">> }

\* CODEOWNERS lines for the parser (the last one: blank, tab, *.m @b, blank, CR)
SampleLines ==
    { <<"*", ".", "j", " ", "@", "a">>,
      <<"*", ".", "j", " ", " ", "@", "a", " ", "@", "b">>,
      <<"#", " ", "c">>,
      <<"m">>,
      <<"*", ".", "j", " ", "@", "o", "/", "t">>,
      <<"*", ".", "j", " ", "@", "o", "/", "t", " ", "@", "a">>,
      <<"*", ".", "m", " ", "a", "@", "b">>,
      <<" ", "\t", "*", ".", "m", " ", "@", "b", " ", "\r">> }

\* CODEOWNERS lines for the rule lists: * d   *.t j   s/ o j   /s/c.t @l   (* d
RuleLines ==
    { <<"*", " ", "d">>,
      <<"*", ".", "t", " ", "j">>,
      <<"s", "/", " ", "o", " ", "j">>,
      <<"/", "s", "/", "c", ".", "t", " ", "@", "l">>,
      <<"(", "*", " ", "d">> }

\* changed files: r.m  a.t  s/a.m  s/c.t  s/a.t
RuleFiles ==
    { <<"r", ".", "m">>,
      <<"a", ".", "t">>,
      <<"s", "/", "a", ".", "m">>,
      <<"s", "/", "c", ".", "t">>,
      <<"s", "/", "a", ".", "t">> }

\* the rule list of the tests of matchFileToOwners, as CODEOWNERS lines:
\* * d   *.t j   s/ o   s/c.t l
ScenarioLines ==
    << <<"*", " ", "d">>,
       <<"*", ".", "t", " ", "j">>,
       <<"s", "/", " ", "o">>,
       <<"s", "/", "c", ".", "t", " ", "l">> >>

\* the changed files of the pull request of the scenario: r.m and s/a.t
ScenarioFiles == { <<"r", ".", "m">>, <<"s", "/", "a", ".", "t">> }

Patterns == StringsUpTo(PatternChars, MaxPatternLen) \cup SamplePatterns
Paths == StringsUpTo(PathChars, MaxPathLen) \cup SamplePaths

\* the text whose lines are the given lines
RECURSIVE JoinLines(_)
JoinLines(lines) ==
    IF lines = <<>> THEN <<>>
    ELSE IF Len(lines) = 1 THEN lines[1]
    ELSE lines[1] \o <<"\n">> \o JoinLines(Tail(lines))

Contents ==
    StringsUpTo(ContentChars, MaxContentLen)
    \cup { JoinLines(ls) : ls \in StringsUpTo(SampleLines, MaxLines) }

RuleTexts ==
    { JoinLines(ls) : ls \in StringsUpTo(RuleLines, MaxRules) }
    \cup { JoinLines(ScenarioLines) }
FileLists == StringsUpTo(RuleFiles, MaxFiles)

\* how many files beyond one page a large pull request changes at most
MaxBeyondPage == 1

\* the changed files of large pull requests: about one page of files, all
\* r.m but one
LargeFileLists ==
    { [i \in 1..n |-> IF i = k THEN f ELSE <<"r", ".", "m">>] :
        n \in (per_page - 1)..(per_page + MaxBeyondPage),
        k \in {1} \cup ((per_page - 2)..(per_page + MaxBeyondPage)),
        f \in { <<"a", ".", "t">>, <<"s", "/", "c", ".", "t">> } }

\* the rule lists the large pull requests are resolved with
LargeRuleTexts ==
    { JoinLines(<< <<"*", ".", "t", " ", "j">> >>),
      JoinLines(<< <<"*", " ", "d">>, <<"*", ".", "t", " ", "j">> >>),
      JoinLines(ScenarioLines) }

(***************************************************************************)
(* The inputs of a monitoring pass                                         *)
(***************************************************************************)

MaxPRs == 2

\* the inputs that act after the loop of run: nothing enabled; the report
\* issue and Slack; comments with the inactivity message and Teams;
\* everything, with a message of the user's own
ReportInputs ==
    { [createIssueEnabled |-> FALSE, autoComment |-> FALSE,
       commentMessage |-> "inactive", slackWebhook |-> FALSE, teamsWebhook |-> FALSE],
      [createIssueEnabled |-> TRUE, autoComment |-> FALSE,
       commentMessage |-> "inactive", slackWebhook |-> TRUE, teamsWebhook |-> FALSE],
      [createIssueEnabled |-> FALSE, autoComment |-> TRUE,
       commentMessage |-> "inactive", slackWebhook |-> FALSE, teamsWebhook |-> TRUE],
      [createIssueEnabled |-> TRUE, autoComment |-> TRUE,
       commentMessage |-> "custom", slackWebhook |-> TRUE, teamsWebhook |-> TRUE] }

\* the inputs of the action: the thresholds and the blocked labels are those
\* of the repository's tests, ignore-drafts and auto-assign-codeowners are free
Inputs ==
    { [staleDays |-> 7, oldDays |-> 14, blockedLabels |-> <<"blocked", "on-hold">>,
       ignoreDrafts |-> d, autoAssignCodeowners |-> a] @@ r :
        d \in BOOLEAN, a \in BOOLEAN, r \in ReportInputs }

NoInputs ==
    [staleDays |-> 7, oldDays |-> 14, blockedLabels |-> <<"blocked", "on-hold">>,
     createIssueEnabled |-> FALSE, autoComment |-> FALSE,
     commentMessage |-> "inactive",
     slackWebhook |-> FALSE, teamsWebhook |-> FALSE,
     ignoreDrafts |-> FALSE, autoAssignCodeowners |-> FALSE]

NoIssues ==
    [stalled |-> <<>>, unassigned |-> <<>>, blocked |-> <<>>, old |-> <<>>,
     needsReview |-> <<>>]

NoOutputs ==
    [set |-> FALSE, stalled |-> 0, unassigned |-> 0, blocked |-> 0, old |-> 0,
     needsReview |-> 0, total |-> 0]

NotFailed == [set |-> FALSE, message |-> ""]

\* the CODEOWNERS texts of a pass: empty, * d, *.t j, *.t @o/t (a team only:
\* no rule), (* d (a pattern matchPattern raises on)
RunTexts ==
    { <<>>,
      <<"*", " ", "d">>,
      <<"*", ".", "t", " ", "j">>,
      <<"*", ".", "t", " ", "@", "o", "/", "t">>,
      <<"(", "*", " ", "d">> }

\* a comment of the bot with the text of the inactivity message, one day
\* old and ten days old
RecentBotComment == [bot |-> TRUE, inactive |-> TRUE, age |-> 1, days |-> 0]
OldBotComment == [bot |-> TRUE, inactive |-> TRUE, age |-> 10, days |-> 0]

\* the open pull requests, without their number: a new one, a stalled old
\* draft, an assigned and blocked one with a recent comment, one awaiting
\* its first review, a stalled one without changed files
SamplePRs ==
    { [draft |-> FALSE, assignees |-> <<>>, labels |-> <<>>,
       fileNames |-> << <<"a", ".", "t">> >>,
       daysSinceUpdate |-> 0, daysSinceCreated |-> 0, comments |-> <<>>],
      [draft |-> TRUE, assignees |-> <<>>, labels |-> <<>>,
       fileNames |-> << <<"r", ".", "m">> >>,
       daysSinceUpdate |-> 8, daysSinceCreated |-> 20, comments |-> <<>>],
      [draft |-> FALSE, assignees |-> <<"u">>, labels |-> <<"Blocked">>,
       fileNames |-> << <<"a", ".", "t">> >>,
       daysSinceUpdate |-> 7, daysSinceCreated |-> 7,
       comments |-> <<RecentBotComment>>],
      [draft |-> FALSE, assignees |-> <<>>, labels |-> <<"bug">>,
       fileNames |-> << <<"s", "/", "c", ".", "t">>, <<"r", ".", "m">> >>,
       daysSinceUpdate |-> 1, daysSinceCreated |-> 3, comments |-> <<>>],
      [draft |-> FALSE, assignees |-> <<>>, labels |-> <<>>,
       fileNames |-> <<>>,
       daysSinceUpdate |-> 9, daysSinceCreated |-> 9,
       comments |-> <<OldBotComment>>] }

\* what listPullRequests returns: up to MaxPRs pull requests, numbered from 1
PRLists ==
    { [i \in 1..Len(kinds) |-> [number |-> i] @@ kinds[i]] :
        kinds \in StringsUpTo(SamplePRs, MaxPRs) }

\* what getPullRequestReviews returns: the states of the reviews
ReviewLists == { <<>>, <<"CHANGES_REQUESTED", "APPROVED">> }

\* how many operations are called on the service directly
MaxServiceSteps == 3

\* the exported operations of the service, reset apart
ServiceOperations ==
    { "getContent", "listPullRequests", "getPullRequestReviews",
      "getPullRequestFiles", "assignPullRequest", "createIssue",
      "getIssueComments", "createComment", "hasRecentBotComment",
      "commentOnPRs", "getContext" }

\* the values of the github-token input: none, and two tokens
Tokens == { "", "fake-token", "other-token" }

(***************************************************************************)
(* The state machine: one action per exported function                     *)
(***************************************************************************)

Init ==
    /\ pc = "idle"
    /\ filename = <<>>
    /\ pattern = <<>>
    /\ content = <<>>
    /\ codeowners = <<>>
    /\ changed = [fileNames |-> <<>>, ok |-> TRUE]
    /\ files = <<>>
    /\ result = Returned(FALSE)
    /\ runPc = "idle"
    /\ inputs = NoInputs
    /\ loaded = Null
    /\ pullRequests = <<>>
    /\ loopIndex = 1
    /\ issues = NoIssues
    /\ outputs = NoOutputs
    /\ comments = <<>>
    /\ calls = <<>>
    /\ failed = NotFailed
    /\ _octokit = NoClient
    /\ _owner = NoName
    /\ _repo = NoName
    /\ serviceLog = <<>>

\* a call of matchPattern(filename, pattern)
MatchPatternCall ==
    /\ pc = "idle"
    /\ \E name \in Paths, patt \in Patterns :
          /\ filename' = name
          /\ pattern' = patt
          /\ result' = matchPattern(name, patt)
    /\ pc' = "matchPattern"
    /\ UNCHANGED <<content, codeowners, changed, files, runVars, serviceVars>>

\* a call of parseCodeowners(content)
ParseCodeownersCall ==
    /\ pc = "idle"
    /\ \E text \in Contents :
          /\ content' = text
          /\ result' = parseCodeowners(text)
    /\ pc' = "parseCodeowners"
    /\ UNCHANGED <<filename, pattern, codeowners, changed, files, runVars, serviceVars>>

\* a call of matchFileToOwners(filename, codeowners), the rule list being the
\* one parseCodeowners gives for a CODEOWNERS text
MatchFileToOwnersCall ==
    /\ pc = "idle"
    /\ \E name \in RuleFiles, text \in RuleTexts :
          /\ filename' = name
          /\ content' = text
          /\ codeowners' = parseCodeowners(text).value
          /\ result' = matchFileToOwners(name, parseCodeowners(text).value)
    /\ pc' = "matchFileToOwners"
    /\ UNCHANGED <<pattern, changed, files, runVars, serviceVars>>

\* a call of getPRCodeowners(prNumber, codeowners): it lists the changed
\* files of the pull request (the request may fail) and matches each of them
GetPRCodeowners(fileLists, texts) ==
    /\ pc = "idle"
    /\ \E changedFiles \in fileLists, ok \in BOOLEAN, text \in texts :
          /\ content' = text
          /\ codeowners' = parseCodeowners(text).value
          /\ changed' = [fileNames |-> changedFiles, ok |-> ok]
          /\ files' = getPullRequestFiles(changedFiles, ok)
          /\ result' = getPRCodeowners(getPullRequestFiles(changedFiles, ok),
                                       parseCodeowners(text).value)
    /\ pc' = "getPRCodeowners"
    /\ UNCHANGED <<filename, pattern, runVars, serviceVars>>

GetPRCodeownersCall == GetPRCodeowners(FileLists, RuleTexts)

\* a call of getPRCodeowners(prNumber, codeowners) for a large pull request
GetPRCodeownersLargeCall == GetPRCodeowners(LargeFileLists, LargeRuleTexts)

(***************************************************************************)
(* The monitoring pass as a state machine: one action per step of run      *)
(* between two awaits                                                      *)
(***************************************************************************)

\* run reads its inputs and, when auto-assign is enabled, loads CODEOWNERS
RunStart ==
    /\ runPc = "idle"
    /\ \E inp \in Inputs, found \in BOOLEAN, text \in RunTexts :
          /\ inputs' = inp
          /\ loaded' = IF inp.autoAssignCodeowners
                       THEN loadCodeowners(found, text) ELSE Null
          /\ calls' = IF inp.autoAssignCodeowners
                      THEN <<Call("getContent", 0, found, <<>>)>> ELSE <<>>
    /\ runPc' = "list"
    /\ UNCHANGED <<pullRequests, loopIndex, issues, outputs, comments, failed, callVars>>
    /\ UsesService(inputs'.autoAssignCodeowners)

\* listPullRequests returns the open pull requests
RunList ==
    /\ runPc = "list"
    /\ \E prs \in PRLists :
          /\ pullRequests' = prs
          /\ comments' = [i \in 1..Len(prs) |-> prs[i].comments]
    /\ calls' = Append(calls, Call("listPulls", 0, TRUE, <<>>))
    /\ issues' = NoIssues
    /\ loopIndex' = 1
    /\ runPc' = "analyse"
    /\ UNCHANGED <<inputs, loaded, outputs, failed, callVars>>
    /\ UsesService(TRUE)

\* listPullRequests raises: the catch of run marks the action failed
RunListFails ==
    /\ runPc = "list"
    /\ calls' = Append(calls, Call("listPulls", 0, FALSE, <<>>))
    /\ failed' = setFailed("listPulls")
    /\ runPc' = "failed"
    /\ UNCHANGED <<inputs, loaded, pullRequests, loopIndex, issues, outputs,
                   comments, callVars>>
    /\ UsesService(TRUE)

\* the loop of run skips a draft when ignore-drafts is set
RunSkipDraft ==
    /\ runPc = "analyse"
    /\ loopIndex <= Len(pullRequests)
    /\ inputs.ignoreDrafts /\ pullRequests[loopIndex].draft
    /\ loopIndex' = loopIndex + 1
    /\ UNCHANGED <<runPc, inputs, loaded, pullRequests, issues, outputs,
                   comments, calls, failed, callVars>>
    /\ UsesService(FALSE)

\* getPullRequestReviews raises for the pull request: the catch of run
\* marks the action failed
RunReviewsFail ==
    /\ runPc = "analyse"
    /\ loopIndex <= Len(pullRequests)
    /\ ~(inputs.ignoreDrafts /\ pullRequests[loopIndex].draft)
    /\ calls' = Append(calls, Call("listReviews", pullRequests[loopIndex].number,
                                   FALSE, <<>>))
    /\ failed' = setFailed("listReviews")
    /\ runPc' = "failed"
    /\ UNCHANGED <<inputs, loaded, pullRequests, loopIndex, issues, outputs,
                   comments, callVars>>
    /\ UsesService(TRUE)

\* one turn of the loop of run for a pull request that is not skipped: its
\* reviews are fetched, it is pushed to the lists it belongs to and, when it
\* has no assignee, the auto-assignment is tried; a getPRCodeowners that
\* raises ends the pass in the catch of run
RunAnalyse ==
    /\ runPc = "analyse"
    /\ loopIndex <= Len(pullRequests)
    /\ ~(inputs.ignoreDrafts /\ pullRequests[loopIndex].draft)
    /\ \E reviews \in ReviewLists, filesOk \in BOOLEAN, assignOk \in BOOLEAN :
          LET pr       == pullRequests[loopIndex]
              fetched  == Call("listReviews", pr.number, TRUE, <<>>)
              first    == pushStalledOld(pr, inputs, issues, reviews)
              tried    == IF Len(pr.assignees) = 0
                          THEN autoAssign(pr, inputs, loaded, filesOk, assignOk)
                          ELSE [threw |-> FALSE, assigned |-> FALSE, calls |-> <<>>]
          IN  /\ calls' = Append(calls, fetched) \o tried.calls
              /\ IF tried.threw
                 THEN /\ issues' = first
                      /\ failed' = setFailed("SyntaxError")
                      /\ runPc' = "failed"
                      /\ UNCHANGED loopIndex
                 ELSE /\ issues' = pushBlockedReview(pr, inputs,
                                       pushUnassigned(pr, first, tried.assigned),
                                       reviews)
                      /\ loopIndex' = loopIndex + 1
                      /\ UNCHANGED <<failed, runPc>>
    /\ UNCHANGED <<inputs, loaded, pullRequests, outputs, comments, callVars>>
    /\ UsesService(TRUE)

\* after the loop: the outputs are set and, when create-issue is enabled and
\* there are issues, the report issue is created; a createIssue that raises
\* ends the pass in the catch of run
RunReport ==
    /\ runPc = "analyse"
    /\ loopIndex > Len(pullRequests)
    /\ outputs' = setOutputs(issues)
    /\ \E created \in BOOLEAN :
          IF shouldCreateIssue(inputs, issues)
          THEN /\ calls' = Append(calls, Call("createIssue", 0, created, <<>>))
               /\ failed' = IF created THEN failed ELSE setFailed("createIssue")
               /\ runPc' = IF created THEN "commentStalled" ELSE "failed"
          ELSE /\ runPc' = "commentStalled"
               /\ UNCHANGED <<calls, failed>>
    /\ loopIndex' = 1
    /\ UNCHANGED <<inputs, loaded, pullRequests, issues, comments, callVars>>
    /\ UsesService(shouldCreateIssue(inputs, issues))

\* commentOnPRs(issues.stalled, commentMessage), when auto-comment is enabled
\* and the list is not empty: one turn of its loop, or its end
RunCommentStalled ==
    /\ runPc = "commentStalled"
    /\ IF inputs.autoComment /\ loopIndex <= Len(issues.stalled)
       THEN \E listOk \in BOOLEAN, postOk \in BOOLEAN :
               LET entry == issues.stalled[loopIndex]
                   done  == commentOnPR(entry, inputs.commentMessage,
                                        comments[entry.number], listOk, postOk)
               IN  /\ comments' = [comments EXCEPT ![entry.number] = done.comments]
                   /\ calls' = calls \o done.calls
                   /\ loopIndex' = loopIndex + 1
                   /\ UNCHANGED runPc
       ELSE /\ runPc' = "commentReview"
            /\ loopIndex' = 1
            /\ UNCHANGED <<comments, calls>>
    /\ UNCHANGED <<inputs, loaded, pullRequests, issues, outputs, failed, callVars>>
    /\ UsesService(inputs.autoComment /\ loopIndex <= Len(issues.stalled))

\* commentOnPRs(issues.needsReview, messageTemplate), likewise
RunCommentReview ==
    /\ runPc = "commentReview"
    /\ IF inputs.autoComment /\ loopIndex <= Len(issues.needsReview)
       THEN \E listOk \in BOOLEAN, postOk \in BOOLEAN :
               LET entry == issues.needsReview[loopIndex]
                   done  == commentOnPR(entry, "review",
                                        comments[entry.number], listOk, postOk)
               IN  /\ comments' = [comments EXCEPT ![entry.number] = done.comments]
                   /\ calls' = calls \o done.calls
                   /\ loopIndex' = loopIndex + 1
                   /\ UNCHANGED runPc
       ELSE /\ runPc' = "notify"
            /\ loopIndex' = 1
            /\ UNCHANGED <<comments, calls>>
    /\ UNCHANGED <<inputs, loaded, pullRequests, issues, outputs, failed, callVars>>
    /\ UsesService(inputs.autoComment /\ loopIndex <= Len(issues.needsReview))

\* the notifications: each webhook that is configured is posted to when
\* there are issues; a failing post is caught
RunNotify ==
    /\ runPc = "notify"
    /\ \E slackOk \in BOOLEAN, teamsOk \in BOOLEAN :
          calls' = calls
                   \o (IF shouldNotify(inputs.slackWebhook, issues)
                       THEN <<Call("slack", 0, slackOk, <<>>)>> ELSE <<>>)
                   \o (IF shouldNotify(inputs.teamsWebhook, issues)
                       THEN <<Call("teams", 0, teamsOk, <<>>)>> ELSE <<>>)
    /\ runPc' = "done"
    /\ UNCHANGED <<inputs, loaded, pullRequests, loopIndex, issues, outputs,
                   comments, failed, callVars>>
    /\ UsesService(FALSE)

NextRun ==
    \/ RunStart \/ RunList \/ RunListFails
    \/ RunSkipDraft \/ RunReviewsFail \/ RunAnalyse
    \/ RunReport \/ RunCommentStalled \/ RunCommentReview \/ RunNotify

(***************************************************************************)
(* The service as a state machine: its operations called directly          *)
(***************************************************************************)

\* a call of an operation of the service: every operation calls _initialize
\* before anything else, commentOnPRs through getIssueComments once per
\* entry of its list, hence not at all for an empty list
ServiceCall ==
    /\ Len(serviceLog) < MaxServiceSteps
    /\ \E op \in ServiceOperations, token \in Tokens, empty \in BOOLEAN :
          LET initialized == ~(op = "commentOnPRs" /\ empty)
              after == initialize(_octokit, _owner, _repo, token)
          IN  /\ op /= "commentOnPRs" => ~empty
              /\ _octokit' = IF initialized THEN after.octokit ELSE _octokit
              /\ _owner' = IF initialized THEN after.owner ELSE _owner
              /\ _repo' = IF initialized THEN after.repo ELSE _repo
              /\ serviceLog' = Append(serviceLog,
                    [op |-> op, token |-> token, initialized |-> initialized,
                     created |-> initialized /\ after.created,
                     threw |-> initialized /\ after.threw])
    /\ UNCHANGED <<callVars, runVars>>

\* reset()
ServiceReset ==
    /\ Len(serviceLog) < MaxServiceSteps
    /\ _octokit' = NoClient
    /\ _owner' = NoName
    /\ _repo' = NoName
    /\ serviceLog' = Append(serviceLog,
          [op |-> "reset", token |-> "", initialized |-> FALSE,
           created |-> FALSE, threw |-> FALSE])
    /\ UNCHANGED <<callVars, runVars>>

NextService == ServiceCall \/ ServiceReset

NextMatch == MatchPatternCall
NextParse == ParseCodeownersCall
NextOwners == MatchFileToOwnersCall \/ GetPRCodeownersCall
NextFiles == GetPRCodeownersLargeCall

SpecMatch == Init /\ [][NextMatch]_vars
SpecParse == Init /\ [][NextParse]_vars
SpecOwners == Init /\ [][NextOwners]_vars
SpecFiles == Init /\ [][NextFiles]_vars
SpecRun == Init /\ [][NextRun]_vars
SpecService == Init /\ [][NextService]_vars

(***************************************************************************)
(* Reference notions used to state the properties: they are defined from   *)
(* the positions of the characters, not from the operators above.          *)
(***************************************************************************)

\* the set of the elements of a sequence
ToSet(seq) == { seq[i] : i \in 1..Len(seq) }

\* the tokens of a line: its maximal runs of characters that are not white
\* space, as <<first, last>> positions
TokenSpans(line) ==
    { sp \in (1..Len(line)) \X (1..Len(line)) :
        /\ sp[1] <= sp[2]
        /\ \A k \in sp[1]..sp[2] : line[k] \notin Whitespace
        /\ (sp[1] = 1 \/ line[sp[1] - 1] \in Whitespace)
        /\ (sp[2] = Len(line) \/ line[sp[2] + 1] \in Whitespace) }

\* the n-th token of a line, from the left
TokenAt(line, n) ==
    LET sp == CHOOSE t \in TokenSpans(line) :
                 Cardinality({ u \in TokenSpans(line) : u[1] < t[1] }) = n - 1
    IN  SubSeq(line, sp[1], sp[2])

TokenCount(line) == Cardinality(TokenSpans(line))

\* the owner tokens of a line: every token after the first
OwnerTokens(line) == [n \in 1..(TokenCount(line) - 1) |-> TokenAt(line, n + 1)]

\* a team reference: an owner token with a slash
IsTeam(token) == \E k \in 1..Len(token) : token[k] = "/"

\* the line is blank or a comment
IsBlankOrComment(line) ==
    TokenCount(line) = 0 \/ TokenAt(line, 1)[1] = "#"

\* the line names at least one individual owner
HasIndividual(line) ==
    \E n \in 1..Len(OwnerTokens(line)) : ~IsTeam(OwnerTokens(line)[n])

\* the lines that must each give one rule
GivesRule(line) == ~IsBlankOrComment(line) /\ HasIndividual(line)
RuleGivingLines(text) == SelectSeq(SplitLines(text), GivesRule)

\* a token without its leading @, if it has one
StripLeadingAt(token) ==
    IF token /= <<>> /\ token[1] = "@" THEN Tail(token) ELSE token

\* the individual owners a line names, each without its leading @
RECURSIVE IndividualsOf(_)
IndividualsOf(tokens) ==
    IF tokens = <<>> THEN <<>>
    ELSE (IF IsTeam(tokens[1]) THEN <<>> ELSE <<StripLeadingAt(tokens[1])>>)
         \o IndividualsOf(Tail(tokens))

\* the rules of the list whose pattern matches the path
MatchingRules(name, rules) ==
    { i \in 1..Len(rules) : matchPattern(name, rules[i].pattern) = Returned(TRUE) }

\* the owners of the last rule that matches the path, none when none matches
LastMatchOwners(name, rules) ==
    IF MatchingRules(name, rules) = {} THEN <<>>
    ELSE rules[CHOOSE i \in MatchingRules(name, rules) :
                   \A j \in MatchingRules(name, rules) : j <= i].owners

\* the characters of a pattern that stand for themselves
IsLiteral(s) == \A k \in 1..Len(s) : s[k] \notin {"*", "("}

\* a (possibly empty) run of whole directory segments: name/name/.../
IsSegments(mid) ==
    \/ mid = <<>>
    \/ /\ mid[1] /= "/"
       /\ mid[Len(mid)] = "/"
       /\ \A k \in 1..(Len(mid) - 1) : ~(mid[k] = "/" /\ mid[k + 1] = "/")

\* a directory name: literal, not empty, no slash at either end, no empty segment
IsDirName(d) ==
    /\ d /= <<>>
    /\ IsLiteral(d)
    /\ d[1] /= "/"
    /\ IsSegments(d \o <<"/">>)

\* a file-name glob: an optional leading star and a literal without slash
IsFileGlob(suf) ==
    /\ suf /= <<>>
    /\ IsLiteral(IF suf[1] = "*" THEN Tail(suf) ELSE suf)
    /\ ~Includes(suf, "/")

\* the file name (no slash) is matched by the file-name glob
FileGlobMatches(suf, tail) ==
    /\ ~Includes(tail, "/")
    /\ IF suf[1] = "*" THEN EndsWith(tail, Tail(suf)) ELSE tail = suf

NoLeadingSlash(s) == ~StartsWith(s, <<"/">>)

\* a string without its leading slash, if it has one
Unslashed(s) == IF s /= <<>> /\ s[1] = "/" THEN [k \in 1..(Len(s) - 1) |-> s[k + 1]] ELSE s

\* t is a prefix / a suffix of s, position by position
HasPrefix(s, t) == Len(t) <= Len(s) /\ \A k \in 1..Len(t) : s[k] = t[k]
HasSuffix(s, t) ==
    Len(t) <= Len(s) /\ \A k \in 1..Len(t) : s[Len(s) - Len(t) + k] = t[k]

\* the path is the directory or lies beneath it
InDirectory(file, dir) ==
    \/ file = dir
    \/ /\ Len(file) > Len(dir)
       /\ HasPrefix(file, dir)
       /\ file[Len(dir) + 1] = "/"

\* the directory name is a whole segment of the path, not the leading one
IsInnerSegment(file, dir) ==
    \E k \in 2..(Len(file) - Len(dir)) :
        /\ file[k - 1] = "/"
        /\ SubSeq(file, k, k + Len(dir) - 1) = dir
        /\ file[k + Len(dir)] = "/"

\* a glob whose only wildcard is the single star
IsSingleStarGlob(pat) ==
    /\ \E k \in 1..Len(pat) : pat[k] = "*"
    /\ \A k \in 1..(Len(pat) - 1) : ~(pat[k] = "*" /\ pat[k + 1] = "*")
    /\ \A k \in 1..Len(pat) : pat[k] /= "("
    /\ ~HasPrefix(pat, <<"*", ".">>)
    /\ pat[Len(pat)] /= "/"

\* the full match of a path by a glob in which a star stands for a possibly
\* empty run of characters other than the slash, and every other character
\* for itself
RECURSIVE GlobMatches(_, _)
GlobMatches(pat, str) ==
    IF pat = <<>> THEN str = <<>>
    ELSE IF pat[1] = "*"
         THEN \E k \in 0..Len(str) :
                 /\ \A j \in 1..k : str[j] /= "/"
                 /\ GlobMatches(Tail(pat), SubSeq(str, k + 1, Len(str)))
         ELSE str /= <<>> /\ str[1] = pat[1] /\ GlobMatches(Tail(pat), Tail(str))

(***************************************************************************)
(* The properties                                                          *)
(***************************************************************************)

\* C1: matchFileToOwners returns exactly the owner list of the last rule, in
\* declaration order, whose pattern matches the path, and the empty list when
\* no rule matches, for every rule list and path.
C1_LastMatchWins ==
    pc = "matchFileToOwners" =>
        result = Returned(LastMatchOwners(filename, codeowners))

\* C1, where it does hold: whenever matchFileToOwners returns, it returns
\* the owner list of the last matching rule.
C1_LastMatchWinsWhenReturned ==
    (pc = "matchFileToOwners" /\ ~result.threw) =>
        result.value = LastMatchOwners(filename, codeowners)

\* C2: in a glob dir/**/glob the double star followed by a slash stands for
\* zero or more whole path segments: the path dir/ + k segments + a file
\* name matched by glob is matched for every k >= 0, and a path outside the
\* leading directory is not.
C2_DoubleStarSlashAnyDepth ==
    pc = "matchPattern" =>
        \A i \in 1..(Len(pattern) - 2) :
            LET pre == SubSeq(pattern, 1, i - 1)
                suf == DropFirst(pattern, i + 2)
            IN  ( /\ SubSeq(pattern, i, i + 2) = <<"*", "*", "/">>
                  /\ pre = <<>> \/ (IsLiteral(pre) /\ pre[1] /= "/" /\ IsSegments(pre))
                  /\ IsFileGlob(suf)
                  /\ NoLeadingSlash(filename) )
                =>
                /\ (\E j \in Len(pre)..Len(filename) :
                       /\ StartsWith(filename, pre)
                       /\ IsSegments(SubSeq(filename, Len(pre) + 1, j))
                       /\ FileGlobMatches(suf, DropFirst(filename, j)))
                   => result = Returned(TRUE)
                /\ (pre /= <<>> /\ ~StartsWith(filename, pre))
                   => result = Returned(FALSE)

\* C3: for a directory d, the glob d/** matches d itself and every path
\* beneath d, at any depth, and no other path.
C3_TrailingDoubleStar ==
    pc = "matchPattern" =>
        LET d == DropLast(pattern, 3) IN
        ( /\ EndsWith(pattern, <<"/", "*", "*">>)
          /\ IsDirName(d)
          /\ NoLeadingSlash(filename) )
        => result = Returned(filename = d \/ StartsWith(filename, d \o <<"/">>))

\* C4 as stated: for a path and a pattern without leading slash, the four
\* calls with and without a leading slash on either return the same boolean.
C4_LeadingSlashIrrelevant ==
    (pc = "matchPattern" /\ NoLeadingSlash(filename) /\ NoLeadingSlash(pattern)) =>
        /\ ~result.threw
        /\ matchPattern(<<"/">> \o filename, pattern) = result
        /\ matchPattern(filename, <<"/">> \o pattern) = result
        /\ matchPattern(<<"/">> \o filename, <<"/">> \o pattern) = result

\* C4 as amended: for a path and a pattern without leading slash, the pattern
\* not being the single star, the four calls have the same outcome.
C4_LeadingSlashIrrelevantButStar ==
    ( /\ pc = "matchPattern"
      /\ NoLeadingSlash(filename) /\ NoLeadingSlash(pattern)
      /\ pattern /= <<"*">> ) =>
        /\ matchPattern(<<"/">> \o filename, pattern) = result
        /\ matchPattern(filename, <<"/">> \o pattern) = result
        /\ matchPattern(<<"/">> \o filename, <<"/">> \o pattern) = result

\* a glob with a slash in it was matched, and so were its slashed variants
C4_Witness ==
    /\ pc = "matchPattern"
    /\ NoLeadingSlash(filename) /\ NoLeadingSlash(pattern)
    /\ Includes(pattern, "*") /\ Includes(pattern, "/") /\ Len(pattern) > 1
    /\ result = Returned(TRUE)
    /\ matchPattern(<<"/">> \o filename, <<"/">> \o pattern) = Returned(TRUE)

\* C5: every owner stored in a rule is its source token without its leading
\* @ if it has one, and the token unchanged otherwise.
C5_OnlyLeadingAtStripped ==
    pc = "parseCodeowners" =>
        /\ Len(result.value) = Len(RuleGivingLines(content))
        /\ \A k \in 1..Len(result.value) :
              result.value[k].owners =
                  IndividualsOf(OwnerTokens(RuleGivingLines(content)[k]))

\* C6: neither matchPattern nor matchFileToOwners ever raises.
C6_NeverRaises ==
    pc \in {"matchPattern", "matchFileToOwners"} => ~result.threw

\* C7: parseCodeowners returns a rule list without raising for every text,
\* and a line with no owner token or only team references gives no rule.
C7_ParserTotal ==
    pc = "parseCodeowners" =>
        /\ ~result.threw
        /\ \A k \in 1..Len(result.value) :
              DOMAIN result.value[k] = {"pattern", "owners"}
        /\ Len(result.value) <=
              Cardinality({ n \in 1..Len(SplitLines(content)) :
                              HasIndividual(SplitLines(content)[n]) })

\* a text with a line that has a pattern and only team references, and a
\* text with a line that has a pattern and no owner, both giving no rule
C7_Witness ==
    /\ pc = "parseCodeowners"
    /\ result = Returned(<<>>)
    /\ \E n \in 1..Len(SplitLines(content)) :
          LET line == SplitLines(content)[n] IN
          /\ ~IsBlankOrComment(line)
          /\ TokenCount(line) >= 2
          /\ ~HasIndividual(line)

\* C8: every rule has at least one owner and no owner contains a slash.
C8_OwnersAreIndividuals ==
    pc = "parseCodeowners" =>
        \A k \in 1..Len(result.value) :
            /\ Len(result.value[k].owners) > 0
            /\ \A n \in 1..Len(result.value[k].owners) :
                  ~Includes(result.value[k].owners[n], "/")

\* a line that mixes a team and an individual gave a rule
C8_Witness ==
    /\ pc = "parseCodeowners"
    /\ Len(result.value) > 0
    /\ \E n \in 1..Len(SplitLines(content)) :
          LET line == SplitLines(content)[n] IN
          /\ GivesRule(line)
          /\ \E m \in 1..Len(OwnerTokens(line)) : IsTeam(OwnerTokens(line)[m])

\* C9: the rule list has exactly one rule per line that is not blank, not a
\* comment and names an individual owner, in the order of the lines, each
\* with the first token of its line as pattern.
C9_OrderKept ==
    pc = "parseCodeowners" =>
        /\ Len(result.value) = Len(RuleGivingLines(content))
        /\ \A k \in 1..Len(result.value) :
              result.value[k].pattern = TokenAt(RuleGivingLines(content)[k], 1)

\* two lines with the same pattern gave two rules
C9_Witness ==
    /\ pc = "parseCodeowners"
    /\ Len(result.value) = 2
    /\ result.value[1].pattern = result.value[2].pattern
    /\ result.value[1].owners /= result.value[2].owners

\* C10: getPRCodeowners returns, as a set, the union over the changed files
\* of matchFileToOwners(file, rules), lists no owner twice, and returns the
\* same set for every order of the changed files.
C10_UnionOfFileOwners ==
    pc = "getPRCodeowners" =>
        /\ ~result.threw
        /\ ToSet(result.value) =
              UNION { ToSet(LastMatchOwners(files[i], codeowners)) :
                        i \in 1..Len(files) }
        /\ Cardinality(ToSet(result.value)) = Len(result.value)
        /\ \A p \in Permutations(1..Len(files)) :
              ToSet(getPRCodeowners([i \in 1..Len(files) |-> files[p[i]]],
                                    codeowners).value)
                  = ToSet(result.value)

\* C10, where it does hold: whenever getPRCodeowners returns.
C10_UnionOfFileOwnersWhenReturned ==
    (pc = "getPRCodeowners" /\ ~result.threw) =>
        /\ ToSet(result.value) =
              UNION { ToSet(LastMatchOwners(files[i], codeowners)) :
                        i \in 1..Len(files) }
        /\ Cardinality(ToSet(result.value)) = Len(result.value)
        /\ \A p \in Permutations(1..Len(files)) :
              LET permuted == getPRCodeowners([i \in 1..Len(files) |-> files[p[i]]],
                                              codeowners)
              IN  ~permuted.threw /\ ToSet(permuted.value) = ToSet(result.value)

\* C11 as stated: with the rule list [* -> d, *.t -> j, s/ -> o, s/c.t -> l],
\* a pull request whose changed files are r.m and s/a.t aggregates to the
\* owner set {d, j, o}.
C11_ScenarioAllThree ==
    ( /\ pc = "getPRCodeowners"
      /\ content = JoinLines(ScenarioLines)
      /\ ToSet(files) = ScenarioFiles ) =>
        /\ ~result.threw
        /\ ToSet(result.value) = { <<"d">>, <<"j">>, <<"o">> }

\* C11 as amended: the same pull request aggregates to {d, o}: s/a.t is
\* matched by *, *.t and s/, and the last of them, s/, gives its owners.
C11_ScenarioLastMatch ==
    ( /\ pc = "getPRCodeowners"
      /\ content = JoinLines(ScenarioLines)
      /\ ToSet(files) = ScenarioFiles ) =>
        /\ ~result.threw
        /\ ToSet(result.value) = { <<"d">>, <<"o">> }

\* the pull request of the scenario was aggregated under the four rules
C11_Witness ==
    /\ pc = "getPRCodeowners"
    /\ content = JoinLines(ScenarioLines)
    /\ Len(codeowners) = 4
    /\ files = << <<"r", ".", "m">>, <<"s", "/", "a", ".", "t">> >>
    /\ ~result.threw

\* C12: when the pattern is exactly the single star, matchPattern returns
\* true for every non-empty path, whatever its depth and with or without a
\* leading slash.
C12_StarMatchesAll ==
    (pc = "matchPattern" /\ pattern = <<"*">> /\ filename /= <<>>) =>
        result = Returned(TRUE)

\* the star was matched against a path with a leading slash and two segments
C12_Witness ==
    /\ pc = "matchPattern"
    /\ pattern = <<"*">>
    /\ Len(filename) > 1 /\ filename[1] = "/"
    /\ \E k \in 2..Len(filename) : filename[k] = "/"
    /\ result = Returned(TRUE)

\* C13: for a pattern whose normalized form ends with a slash, dir being the
\* normalized pattern without that slash, matchPattern returns true iff the
\* normalized path is dir or begins with dir and a slash; a star in such a
\* pattern stands for itself.
C13_DirectoryRule ==
    pc = "matchPattern" =>
        LET pat == Unslashed(pattern)
            dir == SubSeq(pat, 1, Len(pat) - 1)
        IN  (pat /= <<>> /\ pat[Len(pat)] = "/") =>
                result = Returned(InDirectory(Unslashed(filename), dir))

\* a directory pattern was tried on a path that has the directory as a
\* segment other than its first, and did not match
C13_Witness ==
    /\ pc = "matchPattern"
    /\ Len(Unslashed(pattern)) > 1
    /\ Unslashed(pattern)[Len(Unslashed(pattern))] = "/"
    /\ IsInnerSegment(filename,
                      SubSeq(Unslashed(pattern), 1, Len(Unslashed(pattern)) - 1))
    /\ result = Returned(FALSE)

\* C14: for a pattern that begins with a star and a dot and does not end
\* with a slash, matchPattern returns true iff the normalized path ends with
\* the pattern text after the star, at any depth, and the glob translation
\* is not used (nothing is raised).
C14_ExtensionShorthand ==
    ( /\ pc = "matchPattern"
      /\ HasPrefix(pattern, <<"*", ".">>)
      /\ pattern[Len(pattern)] /= "/" ) =>
        result = Returned(\/ HasSuffix(Unslashed(filename), Tail(pattern))
                          \/ Unslashed(filename) = pattern)

\* an extension pattern matched a file two directories deep
C14_Witness ==
    /\ pc = "matchPattern"
    /\ HasPrefix(pattern, <<"*", ".">>)
    /\ Len(pattern) > 2
    /\ pattern[Len(pattern)] /= "/"
    /\ Cardinality({ k \in 1..Len(filename) : filename[k] = "/" }) >= 2
    /\ result = Returned(TRUE)

\* C15: for a pattern with no star and no dot that does not end with a
\* slash, matchPattern returns true iff the normalized path is the normalized
\* pattern or begins with it and a slash.
C15_BareName ==
    ( /\ pc = "matchPattern"
      /\ \A k \in 1..Len(pattern) : pattern[k] \notin {"*", "."}
      /\ pattern = <<>> \/ pattern[Len(pattern)] /= "/" ) =>
        result = Returned(InDirectory(Unslashed(filename), Unslashed(pattern)))

\* a bare name matched a path beneath it
C15_Witness ==
    /\ pc = "matchPattern"
    /\ pattern /= <<>>
    /\ \A k \in 1..Len(pattern) : pattern[k] \notin {"*", ".", "/", "("}
    /\ Len(filename) > Len(pattern) + 1
    /\ HasPrefix(filename, pattern \o <<"/">>)
    /\ result = Returned(TRUE)

\* C16 as stated: for a pattern d with no star that does not end with a slash
\* and a path beneath d, matchPattern gives the same for d and for d with a
\* trailing slash, a dot in d included.
C16_SlashOptional ==
    ( /\ pc = "matchPattern"
      /\ \A k \in 1..Len(pattern) : pattern[k] /= "*"
      /\ pattern = <<>> \/ pattern[Len(pattern)] /= "/"
      /\ HasPrefix(filename, pattern \o <<"/">>) ) =>
        /\ ~result.threw
        /\ matchPattern(filename, pattern \o <<"/">>) = result

\* C16 as amended: the same for a pattern d with no star and no dot.
C16_SlashOptionalNoDot ==
    ( /\ pc = "matchPattern"
      /\ \A k \in 1..Len(pattern) : pattern[k] \notin {"*", "."}
      /\ pattern = <<>> \/ pattern[Len(pattern)] /= "/"
      /\ HasPrefix(filename, pattern \o <<"/">>) ) =>
        /\ ~result.threw
        /\ matchPattern(filename, pattern \o <<"/">>) = result

\* a directory named without a trailing slash matched a path beneath it, as
\* the same directory named with one does
C16_Witness ==
    /\ pc = "matchPattern"
    /\ pattern /= <<>>
    /\ \A k \in 1..Len(pattern) : pattern[k] \notin {"*", "."}
    /\ pattern[Len(pattern)] /= "/"
    /\ HasPrefix(filename, pattern \o <<"/">>)
    /\ Len(filename) > Len(pattern) + 1
    /\ result = Returned(TRUE)
    /\ matchPattern(filename, pattern \o <<"/">>) = Returned(TRUE)

\* C17: for a glob whose only wildcard is the single star (normalized, not
\* the match-all star, not an extension shorthand, not a directory pattern),
\* matchPattern is the full match in which a star stands for a possibly empty
\* run of characters other than the slash and every other character, the dot
\* included, for itself.
C17_SingleStarGlob ==
    ( /\ pc = "matchPattern"
      /\ pattern /= <<"*">>
      /\ IsSingleStarGlob(Unslashed(pattern)) ) =>
        result = Returned(GlobMatches(Unslashed(pattern), Unslashed(filename)))

\* the glob s/*.t was tried on s/fat, where only a dot that stood for any
\* character would match
C17_Witness ==
    /\ pc = "matchPattern"
    /\ pattern = <<"s", "/", "*", ".", "t">>
    /\ filename = <<"s", "/", "f", "a", "t">>
    /\ result = Returned(FALSE)

\* C18: a double star with no slash next to it stands for anything, slashes
\* included: for literals a and b, the glob a**b matches every path that
\* begins with a, ends with b and is at least as long as a and b together.
C18_BareDoubleStar ==
    pc = "matchPattern" =>
        \A i \in 1..(Len(pattern) - 1) :
            LET a == SubSeq(pattern, 1, i - 1)
                b == SubSeq(pattern, i + 2, Len(pattern))
            IN  ( /\ pattern[i] = "*" /\ pattern[i + 1] = "*"
                  /\ IsLiteral(a) /\ IsLiteral(b)
                  /\ NoLeadingSlash(a)
                  /\ a = <<>> \/ a[Len(a)] /= "/"
                  /\ b = <<>> \/ b[1] /= "/"
                  /\ NoLeadingSlash(filename)
                  /\ HasPrefix(filename, a) /\ HasSuffix(filename, b)
                  /\ Len(filename) >= Len(a) + Len(b) )
                => result = Returned(TRUE)

\* the positions of the requests of one kind about one pull request
CallsOf(op, n) == { k \in 1..Len(calls) : calls[k].op = op /\ calls[k].pr = n }

\* the pull request is skipped by the loop of the pass
DraftSkipped(n) == inputs.ignoreDrafts /\ pullRequests[n].draft

\* the pull requests whose turn of the loop has ended
AnalysedPRs ==
    { n \in 1..Len(pullRequests) :
        /\ ~DraftSkipped(n)
        /\ outputs.set \/ (runPc \in {"analyse", "failed"} /\ n < loopIndex) }

\* the changed files of the pull request were fetched and the rule list
\* gives them this owner set
OwnersOfPR(n) == getPRCodeowners(pullRequests[n].fileNames, loaded.rules)

InUnassigned(n) ==
    \E k \in 1..Len(issues.unassigned) : issues.unassigned[k].number = n

AssignSucceeded(n) == \E k \in CallsOf("addAssignees", n) : calls[k].ok

\* C19: in every pass, an assignment is requested only for a pull request
\* that is not skipped as a draft and has no assignee, only when auto-assign
\* is enabled and a rule list was loaded, only with the owner list
\* getPRCodeowners gave for it, which is not empty, and at most once for a
\* pull request.
C19_AssignOnlyWhenDue ==
    \A k \in 1..Len(calls) :
        calls[k].op = "addAssignees" =>
            LET n == calls[k].pr IN
            /\ n \in 1..Len(pullRequests)
            /\ ~DraftSkipped(n)
            /\ Len(pullRequests[n].assignees) = 0
            /\ inputs.autoAssignCodeowners
            /\ ~loaded.isNull
            /\ calls[k].owners /= <<>>
            /\ calls[k].owners = OwnersOfPR(n).value
            /\ CallsOf("addAssignees", n) = {k}

\* a pass ended in which the assignment was requested for one pull request
\* and not for another one without assignees, whose owner set was empty
C19_Witness ==
    /\ runPc = "done"
    /\ \E n \in 1..Len(pullRequests) : CallsOf("addAssignees", n) /= {}
    /\ \E n \in 1..Len(pullRequests) :
          /\ Len(pullRequests[n].assignees) = 0
          /\ CallsOf("listFiles", n) /= {}
          /\ CallsOf("addAssignees", n) = {}

\* C20: an analysed pull request without assignees is in the unassigned list
\* iff no assignment succeeded for it, that is iff auto-assign is disabled,
\* no rule list is loaded, the fetch of its changed files failed, its owner
\* set is empty or the assignment failed; the pass goes on to the next pull
\* request after a failed fetch or assignment, never fails on one, and sets
\* its outputs once every pull request is analysed.
C20_UnassignedIffNotAssigned ==
    /\ \A n \in AnalysedPRs :
          Len(pullRequests[n].assignees) = 0 =>
              /\ InUnassigned(n) <=> ~AssignSucceeded(n)
              /\ ~AssignSucceeded(n) <=>
                    \/ ~inputs.autoAssignCodeowners
                    \/ loaded.isNull
                    \/ \E k \in CallsOf("listFiles", n) : ~calls[k].ok
                    \/ OwnersOfPR(n).value = <<>>
                    \/ \E k \in CallsOf("addAssignees", n) : ~calls[k].ok
    /\ \A k \in 1..Len(calls) :
          (calls[k].op \in {"listFiles", "addAssignees"} /\ ~calls[k].ok) =>
              /\ calls[k].pr \in AnalysedPRs
              /\ failed.set => k < Len(calls)
    /\ runPc \in {"commentStalled", "commentReview", "notify", "done"} =>
          /\ outputs.set
          /\ outputs.unassigned = Len(issues.unassigned)
          /\ \A n \in 1..Len(pullRequests) :
                ~DraftSkipped(n) => \E k \in CallsOf("listReviews", n) : calls[k].ok

\* a pass ended in which the fetch of the changed files failed for one pull
\* request and the assignment for the next, and both are reported unassigned
C20_Witness ==
    /\ runPc = "done"
    /\ Len(pullRequests) = 2
    /\ \E k \in CallsOf("listFiles", 1) : ~calls[k].ok
    /\ \E k \in CallsOf("addAssignees", 2) : ~calls[k].ok
    /\ InUnassigned(1) /\ InUnassigned(2)
    /\ outputs.unassigned = 2


\* the request for the CODEOWNERS file failed in this pass
FetchOfCodeownersFailed ==
    \E k \in 1..Len(calls) : calls[k].op = "getContent" /\ ~calls[k].ok

\* C21: when the CODEOWNERS file cannot be fetched, loadCodeowners returns
\* null; in that pass no changed files are listed and no assignment is
\* requested for any pull request, the pass does not fail on it, and every
\* analysed pull request without assignees is in the unassigned list.
C21_NoCodeownersNoAssign ==
    FetchOfCodeownersFailed =>
        /\ loaded = Null
        /\ \A k \in 1..Len(calls) : calls[k].op \notin {"listFiles", "addAssignees"}
        /\ \A n \in AnalysedPRs :
              Len(pullRequests[n].assignees) = 0 => InUnassigned(n)
        /\ failed.set =>
              /\ calls[Len(calls)].op \in {"listPulls", "listReviews", "createIssue"}
              /\ ~calls[Len(calls)].ok
        /\ runPc \in {"commentStalled", "commentReview", "notify", "done"} =>
              /\ outputs.set
              /\ AnalysedPRs = { n \in 1..Len(pullRequests) : ~DraftSkipped(n) }

\* a pass with auto-assign enabled ended without the CODEOWNERS file, two
\* pull requests without assignees being reported unassigned
C21_Witness ==
    /\ runPc = "done"
    /\ inputs.autoAssignCodeowners
    /\ FetchOfCodeownersFailed
    /\ Len(pullRequests) = 2
    /\ InUnassigned(1) /\ InUnassigned(2)


\* the comments posted on the pull request in this pass: those of age 0
PostedNow(n) == { j \in 1..Len(comments[n]) : comments[n][j].age = 0 }

\* every request for the comments of a pull request succeeded in this pass
CommentsListed ==
    \A k \in 1..Len(calls) : calls[k].op = "listComments" => calls[k].ok

\* C22: commentOnPRs posts no comment on a pull request that carries a
\* comment of the bot less than dayThreshold (7) days old, whatever the
\* template of that comment: when the comments could be listed, no comment
\* posted in this pass comes after such a comment.
C22_NoCommentAfterRecentOne ==
    CommentsListed =>
    \A n \in 1..Len(comments) :
        \A j \in PostedNow(n) :
            \A i \in 1..(j - 1) : ~(comments[n][i].bot /\ comments[n][i].age < 7)

\* C23: the comment posted on a stalled pull request gives, for {days}, the
\* whole days since the last update of the pull request.
C23_DaysSinceUpdate ==
    runPc = "commentStalled" =>
        \A n \in 1..Len(comments) :
            \A j \in PostedNow(n) :
                comments[n][j].days = pullRequests[n].daysSinceUpdate

\* C29: in one pass every pull request receives at most one comment, also
\* when it is both stalled and awaiting its first review.
C29_OneCommentPerPass ==
    CommentsListed =>
    \A n \in 1..Len(comments) : Cardinality(PostedNow(n)) <= 1


\* the numbers of the pull requests of a list of entries
NumbersOf(list) == { list[k].number : k \in 1..Len(list) }

\* the pull request carries one of the blocked labels, whatever the case of
\* its letters
HasBlockedLabel(n) ==
    \E l \in 1..Len(pullRequests[n].labels) :
        pullRequests[n].labels[l] \in {"blocked", "Blocked", "on-hold"}

\* C24: the total-issues output is stalled-count + unassigned-count +
\* blocked-count + old-count, each count being the number of analysed pull
\* requests of that category (a pull request of several categories counts in
\* each, one only awaiting its first review counts in none), and no pull
\* request is twice in a list.
C24_TotalIsSumOfFour ==
    outputs.set =>
        /\ outputs.total =
              outputs.stalled + outputs.unassigned + outputs.blocked + outputs.old
        /\ outputs.stalled = Cardinality({ n \in AnalysedPRs :
              pullRequests[n].daysSinceUpdate >= inputs.staleDays })
        /\ outputs.old = Cardinality({ n \in AnalysedPRs :
              pullRequests[n].daysSinceCreated >= inputs.oldDays })
        /\ outputs.blocked = Cardinality({ n \in AnalysedPRs : HasBlockedLabel(n) })
        /\ outputs.unassigned = Cardinality({ n \in AnalysedPRs :
              Len(pullRequests[n].assignees) = 0 /\ ~AssignSucceeded(n) })
        /\ \A list \in { issues.stalled, issues.unassigned, issues.blocked,
                         issues.old, issues.needsReview } :
              Cardinality(NumbersOf(list)) = Len(list)

\* the outputs were set in a pass with one pull request in three of the four
\* lists and another one only awaiting its first review
C24_Witness ==
    /\ outputs.set
    /\ outputs.total = 3
    /\ \E n \in 1..Len(pullRequests) :
          n \in NumbersOf(issues.stalled) \cap NumbersOf(issues.old)
                \cap NumbersOf(issues.unassigned)
    /\ \E n \in 1..Len(pullRequests) :
          /\ n \in NumbersOf(issues.needsReview)
          /\ n \notin NumbersOf(issues.stalled) \cup NumbersOf(issues.old)
                      \cup NumbersOf(issues.unassigned) \cup NumbersOf(issues.blocked)


\* the positions of the requests of one kind
Requests(op) == { k \in 1..Len(calls) : calls[k].op = op }

\* the pass has ended, with its outputs set
PassEndedWithOutputs == outputs.set /\ runPc \in {"done", "failed"}

ListingFailed == \E k \in Requests("listPulls") : ~calls[k].ok

\* C26: when listing the open pull requests fails, run ends without raising:
\* the action is marked failed with the message "Action failed: " followed by
\* the message of the error, no output is set, and no assignment, issue
\* creation, comment or notification is requested in that pass.
C26_ListingFailureEndsPass ==
    ListingFailed =>
        /\ runPc = "failed"
        /\ failed.set
        /\ failed.message = "Action failed: " \o "listPulls"
        /\ ~outputs.set
        /\ issues = NoIssues
        /\ calls[Len(calls)].op = "listPulls"
        /\ \A k \in 1..Len(calls) :
              calls[k].op \in {"getContent", "listPulls"}

\* the listing failed in a pass that had loaded a rule list for the
\* auto-assignment and has the report issue, the comments and both webhooks
\* configured
C26_Witness ==
    /\ ListingFailed
    /\ failed.set
    /\ inputs.autoAssignCodeowners /\ ~loaded.isNull
    /\ inputs.createIssueEnabled /\ inputs.autoComment
    /\ inputs.slackWebhook /\ inputs.teamsWebhook


\* C30: a pass that ended in failure has made no assignment: no request
\* adding assignees to a pull request succeeded in it.
C30_FailedPassAssignedNothing ==
    failed.set => \A k \in Requests("addAssignees") : ~calls[k].ok


\* C27: whenever the files of the pull request were listed and
\* getPRCodeowners returned, every owner of the last matching rule of every
\* file the pull request changes is in the returned owner set, however many
\* files it changes.
C27_EveryChangedFileCounts ==
    (pc = "getPRCodeowners" /\ changed.ok /\ ~result.threw) =>
        \A i \in 1..Len(changed.fileNames) :
            ToSet(LastMatchOwners(changed.fileNames[i], codeowners))
                \subseteq ToSet(result.value)


\* the positions of the log at which reset was called
ResetsAt == { k \in 1..Len(serviceLog) : serviceLog[k].op = "reset" }

\* no client made before position i is left: each one was followed by a reset
NoClientBefore(i) ==
    \A k \in 1..(i - 1) :
        serviceLog[k].created => \E r \in ResetsAt : k < r /\ r < i

=============================================================================
